---------------------------- MODULE Spec2Model ----------------------------
(***************************************************************************)
(* Model of examples/interactive_client.rs: the interactive MCP client.    *)
(*                                                                         *)
(* main prompts for an executable path, spawns the server, wires a stdio   *)
(* transport, calls initialize() and list_tools(), then creates a bounded  *)
(* channel, spawns an input producer task that reads stdin line by line    *)
(* and sends each trimmed line, and runs the consumer loop that parses     *)
(* each received line and awaits call_tool() for it.  After the loop it    *)
(* calls shutdown().                                                       *)
(*                                                                         *)
(* A line of text is a sequence of one-character strings.  The lines of    *)
(* the input source carry their ordinal in the input stream as identity.   *)
(***************************************************************************)
EXTENDS Naturals, Sequences, FiniteSets

VARIABLES
    family,      \* which kind of user drives the run (fixed by Init)
    stdin,       \* every line the user has supplied so far, in order
    rd,          \* how many lines of stdin have been taken by a reader
    closed,      \* the input source is at end-of-input
    pc,          \* position of main
    status,      \* "running", or main's return value: "ok" | "err"
    server_cmd,  \* the executable path (line 19)
    child,       \* the spawned server process: "none" | "running"
    transport,   \* the StdioTransport / Client has been built
    pending,     \* Session API requests issued and not yet resolved
    issued,      \* every Session API request issued so far, in order
    initResult,  \* outcome of initialize(): "none" | "ok" | "err"
    listResult,  \* outcome of list_tools(): "none" | "ok" | "err"
    tools,       \* the catalog built at lines 82-94
    pcP,         \* position of the input producer task
    buffer,      \* the producer's line buffer (line 113) and its ordinal
    queue,       \* the mpsc channel's buffered messages
    rxOpen,      \* input_rx has not been dropped
    input,       \* the line the consumer received last (line 143)
    parts,       \* its split (line 149)
    accepted,    \* ordinals of the lines the producer has read, in order
    received,    \* ordinals of the lines the consumer has received, in order
    reported,    \* ordinals whose call_tool outcome has been printed/logged
    last,        \* the latest outcome the consumer reported
    endedBy,     \* why the consumer loop ended: "none" | "exit" | "closed"
    parked,      \* the producer's send found the channel full and waits
    toolsResult, \* shape of the value list_tools() returned: "none" | ...
    producerEnd  \* why the producer task ended: "none" | "eof" | ...

vars == <<family, stdin, rd, closed, pc, status, server_cmd, child, transport,
          pending, issued, initResult, listResult, tools, pcP, buffer, queue,
          rxOpen, input, parts, accepted, received, reported, last, endedBy,
          parked, toolsResult, producerEnd>>

----------------------------------------------------------------------------
(* Bounds of the model *)

\* command lines a "session" user types after the path line
MaxCmds == 3
\* command lines a "burst" user types after the path line
BurstCmds == 12
\* a "burst" user types exit, if at all, among this many first commands
BurstExitBy == 2
\* length of the command line a "parse" user types
MaxLen == 4

\* mpsc::channel(10)
Capacity == 10

----------------------------------------------------------------------------
(* Text *)

\* char::is_whitespace, restricted to the characters of the model
WS == {" ", "\t", "\n"}

\* characters a "parse" user types: a letter, a digit, a space, a tab
Chars == {"x", "1", " ", "\t"}

ExitToken == <<"e", "x", "i", "t">>

\* str::trim (lines 30, 124, 144): strips leading and trailing whitespace
Trim_None(s) == s

Trim(s) ==
    LET keep == {i \in 1..Len(s) : s[i] \notin WS}
    IN  IF keep = {} THEN <<>>
        ELSE LET lo == CHOOSE i \in keep : \A j \in keep : i <= j
                 hi == CHOOSE i \in keep : \A j \in keep : j <= i
             IN  SubSeq(s, lo, hi)

\* read_line appends the line and its terminator to the buffer
ReadLine(l) == Append(l, "\n")

\* str::splitn(2, ' ') collected into a Vec (line 149)
SplitN2_LastSpace(s) ==
    LET sp == {i \in 1..Len(s) : s[i] = " "}
    IN  IF sp = {} THEN <<s>>
        ELSE LET k == CHOOSE i \in sp : \A j \in sp : j <= i
             IN  <<SubSeq(s, 1, k - 1), SubSeq(s, k + 1, Len(s))>>

SplitN2(s) ==
    LET sp == {i \in 1..Len(s) : s[i] = " "}
    IN  IF sp = {} THEN <<s>>
        ELSE LET k == CHOOSE i \in sp : \A j \in sp : i <= j
             IN  <<SubSeq(s, 1, k - 1), SubSeq(s, k + 1, Len(s))>>

\* serde_json::from_str::<Value> succeeds (line 159).  Over the characters
\* of the model a JSON text is optional whitespace, then a number (a run of
\* the digit) or a string (quoted, no raw control character inside), then
\* optional whitespace.
IsJson(t) ==
    LET v == Trim(t)
    IN  /\ v /= <<>>
        /\ \/ \A i \in 1..Len(v) : v[i] = "1"
           \/ /\ Len(v) >= 2
              /\ v[1] = "\"" /\ v[Len(v)] = "\""
              /\ \A i \in 2..(Len(v) - 1) : v[i] \notin {"\"", "\t", "\n"}

\* the exit check of the consumer (line 144)
IsExit_Never(s) == FALSE

IsExit_Prefix(s) == Len(s) >= 4 /\ SubSeq(s, 1, 4) = ExitToken

IsExit(s) == Trim(s) = ExitToken

\* what the consumer does with a received line (lines 144-172)
Classify_NoChecks(s) ==
    IF IsExit(s) THEN "exit" ELSE "call"

Classify(s) ==
    IF IsExit(s) THEN "exit"
    ELSE IF Len(SplitN2(s)) < 2 THEN "format_error"
    ELSE IF ~IsJson(SplitN2(s)[2]) THEN "params_error"
    ELSE "call"

----------------------------------------------------------------------------
(* The user *)

RECURSIVE Strings(_)
Strings(n) ==
    IF n = 0 THEN {<<>>}
    ELSE LET shorter == Strings(n - 1)
         IN  shorter \cup {Append(s, c) : s \in {t \in shorter : Len(t) = n - 1}, c \in Chars}

\* answers to the path prompt: a blank line, a path with a trailing space
PathLines == {<<" ">>, <<"p", " ">>}

\* exit, as a user types it
ExitLine == <<"e", "x", "i", "t", " ">>

\* command lines of a session: exit (with a trailing space), a tool name
\* alone, a tool name with parameters that are not JSON, a tool name with
\* JSON parameters that contain a space
CmdLines ==
    { ExitLine,
      <<"t">>,
      <<"t", " ", "x">>,
      <<"t", " ", "\"", "1", " ", "1", "\"">> }

\* the spellings of exit a "spelling" user tries as the first command line:
\* the token, the token in whitespace, other cases, the token followed by
\* more text
ExitSpellings ==
    { <<"e", "x", "i", "t">>,
      <<" ", "e", "x", "i", "t", "\t">>,
      <<"E", "X", "I", "T">>,
      <<"E", "x", "i", "t">>,
      <<"e", "x", "i", "t", " ", "n", "o", "w">>,
      <<"e", "x", "i", "t", " ", "1">> }

Families == {"session", "burst", "parse", "spelling"}

\* how many lines a user of family f supplies at most
Budget(f) ==
    CASE f = "session" -> 1 + MaxCmds
      [] f = "burst"   -> 1 + BurstCmds
      [] f = "parse"   -> 2
      [] f = "spelling" -> 3

\* the lines a user of family f may supply next, having supplied typed: a
\* session user answers the prompt and types command lines; a burst user
\* types one well-formed command over and over, and exit at most once,
\* among the first BurstExitBy commands; a
\* parse user types one arbitrary line over Chars; a spelling user types
\* one spelling of exit and one command behind it
Menu(f, typed) ==
    CASE f = "session" -> IF typed = <<>> THEN PathLines ELSE CmdLines
      [] f = "burst"   ->
           IF typed = <<>> THEN {<<"p">>}
           ELSE {<<"t", " ", "1">>}
                \cup (IF \/ Len(typed) > BurstExitBy
                         \/ \E i \in 1..Len(typed) : typed[i] = ExitLine
                      THEN {} ELSE {ExitLine})
      [] f = "parse"   -> IF typed = <<>> THEN {<<"p">>} ELSE Strings(MaxLen)
      [] f = "spelling" ->
           IF typed = <<>> THEN {<<"p">>}
           ELSE IF Len(typed) = 1 THEN ExitSpellings ELSE {<<"t", " ", "1">>}

NoLine == [n |-> 0, s |-> <<>>]
NoReport == [n |-> 0, kind |-> "none"]

Init ==
    /\ family \in Families
    /\ stdin = <<>>
    /\ rd = 0
    /\ closed = FALSE
    /\ pc = "prompt"
    /\ status = "running"
    /\ server_cmd = <<>>
    /\ child = "none"
    /\ transport = FALSE
    /\ pending = {}
    /\ issued = <<>>
    /\ initResult = "none"
    /\ listResult = "none"
    /\ tools = {}
    /\ pcP = "unspawned"
    /\ buffer = NoLine
    /\ queue = <<>>
    /\ rxOpen = FALSE
    /\ input = NoLine
    /\ parts = <<>>
    /\ accepted = <<>>
    /\ received = <<>>
    /\ reported = <<>>
    /\ last = NoReport
    /\ endedBy = "none"
    /\ parked = FALSE
    /\ toolsResult = "none"
    /\ producerEnd = "none"

\* the user supplies one more line
UserType ==
    /\ ~closed
    /\ Len(stdin) < Budget(family)
    /\ \E l \in Menu(family, stdin) : stdin' = Append(stdin, l)
    /\ UNCHANGED <<family, parked, toolsResult, producerEnd,
                   rd, closed, pc, status, server_cmd, child, transport,
                   pending, issued, initResult, listResult, tools, pcP, buffer,
                   queue, rxOpen, input, parts, accepted, received, reported,
                   last, endedBy>>

\* the input source reaches end-of-input
UserClose ==
    /\ ~closed
    /\ closed' = TRUE
    /\ UNCHANGED <<family, parked, toolsResult, producerEnd,
                   stdin, rd, pc, status, server_cmd, child, transport,
                   pending, issued, initResult, listResult, tools, pcP, buffer,
                   queue, rxOpen, input, parts, accepted, received, reported,
                   last, endedBy>>


----------------------------------------------------------------------------
(* main: path prompt, spawn, transport *)

Request(op, n) == [op |-> op, n |-> n]

\* read_line of the path prompt (lines 24-35).  The reader is a BufReader of
\* its own that is dropped after this one line: whatever else the read took
\* from the input source goes with it.  Ok(0) returns the error, Ok(_) keeps
\* the trimmed line, Err(e) only prints and goes on with the empty path.
PromptRead ==
    /\ pc = "prompt"
    /\ \/ /\ stdin = <<>> /\ closed
          /\ pc' = "done" /\ status' = "err"
          /\ UNCHANGED <<rd, server_cmd>>
       \/ /\ stdin /= <<>>
          /\ \E k \in 1..Len(stdin) : rd' = k
          /\ server_cmd' = Trim(ReadLine(stdin[1]))
          /\ pc' = "spawn"
          /\ UNCHANGED status
       \/ /\ pc' = "spawn"
          /\ UNCHANGED <<rd, server_cmd, status>>
    /\ UNCHANGED <<family, parked, toolsResult, producerEnd,
                   stdin, closed, child, transport, pending, issued,
                   initResult, listResult, tools, pcP, buffer, queue, rxOpen,
                   input, parts, accepted, received, reported, last, endedBy>>

\* Command::new(server_cmd)...spawn() (lines 37-42): an empty program name
\* cannot be launched; any other path may or may not be launchable
Launchable_Any(cmd) == TRUE

Launchable(cmd) == cmd /= <<>>

\* the spawn succeeds and the child runs, or it fails and main returns the
\* error
Spawn ==
    /\ pc = "spawn"
    /\ \/ /\ Launchable(server_cmd)
          /\ child' = "running"
          /\ pc' = "connect"
          /\ UNCHANGED status
       \/ /\ pc' = "done" /\ status' = "err"
          /\ UNCHANGED child
    /\ UNCHANGED <<family, parked, toolsResult, producerEnd,
                   stdin, rd, closed, server_cmd, transport, pending,
                   issued, initResult, listResult, tools, pcP, buffer, queue,
                   rxOpen, input, parts, accepted, received, reported, last,
                   endedBy>>

\* the grace period, the pipes, the transport and the client (lines 44-58)
Connect ==
    /\ pc = "connect"
    /\ transport' = TRUE
    /\ pc' = "initialize"
    /\ UNCHANGED <<family, parked, toolsResult, producerEnd,
                   stdin, rd, closed, status, server_cmd, child,
                   pending, issued, initResult, listResult, tools, pcP, buffer,
                   queue, rxOpen, input, parts, accepted, received, reported,
                   last, endedBy>>

----------------------------------------------------------------------------
(* main: initialize and list_tools *)

\* where main goes when initialize() has resolved (line 62, the ? operator)
AfterInitialize_Ignore(ok) == "list_tools"

AfterInitialize(ok) == IF ok THEN "list_tools" ELSE "done"

\* where main goes when list_tools() has resolved (line 81, the ? operator)
AfterListTools_Ignore(ok) == "recv"

AfterListTools(ok) == IF ok THEN "recv" ELSE "done"

\* where main goes when call_tool() has resolved (lines 172-179: both arms
\* fall through to the next iteration)
AfterCallTool_Propagate(ok) == IF ok THEN "recv" ELSE "done"

AfterCallTool(ok) == "recv"

\* client.initialize() is called (line 62)
InitializeCall ==
    /\ pc = "initialize"
    /\ pending' = pending \cup {Request("initialize", 0)}
    /\ issued' = Append(issued, Request("initialize", 0))
    /\ pc' = "initialize.await"
    /\ UNCHANGED <<family, parked, toolsResult, producerEnd,
                   stdin, rd, closed, status, server_cmd, child,
                   transport, initResult, listResult, tools, pcP, buffer, queue,
                   rxOpen, input, parts, accepted, received, reported, last,
                   endedBy>>

\* client.initialize() resolves (lines 62-78)
InitializeReturn ==
    /\ pc = "initialize.await"
    /\ Request("initialize", 0) \in pending
    /\ \E ok \in BOOLEAN :
          /\ initResult' = IF ok THEN "ok" ELSE "err"
          /\ pc' = AfterInitialize(ok)
          /\ status' = IF AfterInitialize(ok) = "done" THEN "err" ELSE status
    /\ pending' = pending \ {Request("initialize", 0)}
    /\ UNCHANGED <<family, parked, toolsResult, producerEnd,
                   stdin, rd, closed, server_cmd, child, transport,
                   issued, listResult, tools, pcP, buffer, queue, rxOpen, input,
                   parts, accepted, received, reported, last, endedBy>>

\* client.list_tools() is called (line 81)
ListToolsCall ==
    /\ pc = "list_tools"
    /\ pending' = pending \cup {Request("list_tools", 0)}
    /\ issued' = Append(issued, Request("list_tools", 0))
    /\ pc' = "list_tools.await"
    /\ UNCHANGED <<family, parked, toolsResult, producerEnd,
                   stdin, rd, closed, status, server_cmd, child,
                   transport, initResult, listResult, tools, pcP, buffer, queue,
                   rxOpen, input, parts, accepted, received, reported, last,
                   endedBy>>

\* the catalogs a successful list_tools() can yield at lines 82-94: no
\* "tools" array or an empty one (both the empty catalog), or one tool
Catalogs == {{}, {"t"}}

\* the shapes of the value a successful list_tools() returns: no "tools"
\* key (or one that is no array), an empty array, an array of one tool
ListResults == {"absent", "empty", "one"}

\* tools_result.get("tools").and_then(as_array).map(..).unwrap_or_default()
\* (lines 82-94)
CatalogOf_Stale(res) == {"t"}

CatalogOf(res) == IF res = "one" THEN {"t"} ELSE {}

\* client.list_tools() resolves; on success the catalog is built and
\* logged, the channel is created and the producer task is spawned
\* (lines 81-141)
ListToolsReturn ==
    /\ pc = "list_tools.await"
    /\ Request("list_tools", 0) \in pending
    /\ \E ok \in BOOLEAN :
          /\ listResult' = IF ok THEN "ok" ELSE "err"
          /\ IF ok
             THEN \E res \in ListResults :
                     /\ toolsResult' = res
                     /\ tools' = CatalogOf(res)
             ELSE UNCHANGED <<tools, toolsResult>>
          /\ pc' = AfterListTools(ok)
          /\ IF AfterListTools(ok) = "done"
             THEN status' = "err" /\ UNCHANGED <<rxOpen, pcP>>
             ELSE rxOpen' = TRUE /\ pcP' = "read" /\ UNCHANGED status
    /\ pending' = pending \ {Request("list_tools", 0)}
    /\ UNCHANGED <<family, parked, producerEnd, stdin, rd, closed, server_cmd,
                   child, transport, issued, initResult, buffer, queue, input,
                   parts, accepted, received, reported, last, endedBy>>

----------------------------------------------------------------------------
(* The input producer task (lines 109-136) *)

\* Sender::send can complete at once: the channel has a free slot
HasPermit_Always(q) == TRUE

HasPermit(q) == Len(q) < Capacity

\* the channel buffers messages in the order they were sent
Enqueue_Front(q, m) == <<m>> \o q

Enqueue(q, m) == Append(q, m)

\* where the producer task goes when read_line fails: it logs the error
\* and breaks the loop (lines 130-133)
AfterReadError_Retry == "read"

AfterReadError == "ended"

\* reader.read_line(&mut buffer) (lines 120-133): a line, end-of-input, or
\* a read error; the last two end the task, which drops input_tx
ProducerRead ==
    /\ pcP = "read"
    /\ \/ /\ rd < Len(stdin)
          /\ buffer' = [n |-> rd + 1, s |-> ReadLine(stdin[rd + 1])]
          /\ rd' = rd + 1
          /\ accepted' = Append(accepted, rd + 1)
          /\ pcP' = "send"
          /\ UNCHANGED producerEnd
       \/ /\ rd = Len(stdin) /\ closed
          /\ pcP' = "ended"
          /\ producerEnd' = "eof"
          /\ UNCHANGED <<buffer, rd, accepted>>
       \/ /\ pcP' = AfterReadError
          /\ producerEnd' = "read_error"
          /\ UNCHANGED <<buffer, rd, accepted>>
    /\ UNCHANGED <<family, parked, toolsResult,
                   stdin, closed, pc, status, server_cmd, child,
                   transport, pending, issued, initResult, listResult, tools,
                   queue, rxOpen, input, parts, received, reported, last,
                   endedBy>>

\* input_tx.send(buffer.trim().to_string()).await (lines 124-128): sends
\* at once when a slot is free, otherwise waits for one while the receiver
\* lives; fails once the receiver is dropped
ProducerSend ==
    /\ pcP = "send"
    /\ \/ /\ rxOpen /\ HasPermit(queue)
          /\ queue' = Enqueue(queue, [n |-> buffer.n, s |-> Trim(buffer.s)])
          /\ pcP' = "sleep"
          /\ parked' = FALSE
          /\ UNCHANGED producerEnd
       \/ /\ rxOpen /\ ~HasPermit(queue) /\ ~parked
          /\ parked' = TRUE
          /\ UNCHANGED <<queue, pcP, producerEnd>>
       \/ /\ ~rxOpen
          /\ pcP' = "ended"
          /\ producerEnd' = "send_error"
          /\ parked' = FALSE
          /\ UNCHANGED queue
    /\ UNCHANGED <<family, toolsResult,
                   stdin, rd, closed, pc, status, server_cmd, child,
                   transport, pending, issued, initResult, listResult, tools,
                   buffer, rxOpen, input, parts, accepted, received, reported,
                   last, endedBy>>

\* the 100 ms sleep after a send is over (line 127)
ProducerWake ==
    /\ pcP = "sleep"
    /\ pcP' = "read"
    /\ UNCHANGED <<family, parked, toolsResult, producerEnd,
                   stdin, rd, closed, pc, status, server_cmd, child,
                   transport, pending, issued, initResult, listResult, tools,
                   buffer, queue, rxOpen, input, parts, accepted, received,
                   reported, last, endedBy>>

----------------------------------------------------------------------------
(* The consumer loop (lines 143-180) and shutdown (lines 182-186) *)

\* main is at input_rx.recv().await (line 143)
RecvReady_Overlapped == pc \in {"recv", "call_tool.await"}

RecvReady_Late == pc \in {"recv", "shutdown.await"}

RecvReady == pc = "recv"

\* recv() yields None: every sender is dropped and nothing is buffered
ChannelClosed_Undrained(q) == pcP = "ended"

ChannelClosed(q) == pcP = "ended" /\ q = <<>>

\* recv() yields a line: the exit check, the parser, and the call
\* (lines 143-172)
RecvSome ==
    /\ RecvReady
    /\ queue /= <<>>
    /\ LET line == Head(queue)
           what == Classify(line.s)
       IN  /\ queue' = Tail(queue)
           /\ input' = line
           /\ received' = Append(received, line.n)
           /\ parts' = IF what = "exit" THEN <<>> ELSE SplitN2(line.s)
           /\ CASE what = "exit" ->
                     /\ pc' = "shutdown"
                     /\ endedBy' = "exit"
                     /\ UNCHANGED <<pending, issued, last>>
                [] what \in {"format_error", "params_error"} ->
                     /\ pc' = "recv"
                     /\ last' = [n |-> line.n, kind |-> what]
                     /\ UNCHANGED <<pending, issued, endedBy>>
                [] what = "call" ->
                     /\ pc' = "call_tool.await"
                     /\ pending' = pending \cup {Request("call_tool", line.n)}
                     /\ issued' = Append(issued, Request("call_tool", line.n))
                     /\ UNCHANGED <<last, endedBy>>
    /\ UNCHANGED <<family, parked, toolsResult, producerEnd,
                   stdin, rd, closed, status, server_cmd, child,
                   transport, initResult, listResult, tools, pcP, buffer,
                   rxOpen, accepted, reported>>

\* recv() yields None: the loop ends (line 143)
RecvNone ==
    /\ RecvReady
    /\ ChannelClosed(queue)
    /\ pc' = "shutdown"
    /\ endedBy' = "closed"
    /\ UNCHANGED <<family, parked, toolsResult, producerEnd,
                   stdin, rd, closed, status, server_cmd, child,
                   transport, pending, issued, initResult, listResult, tools,
                   pcP, buffer, queue, rxOpen, input, parts, accepted, received,
                   reported, last>>

\* client.call_tool() resolves; the result is printed or the error logged
\* (lines 172-179)
CallToolReturn ==
    /\ pc = "call_tool.await"
    /\ Request("call_tool", input.n) \in pending
    /\ \E ok \in BOOLEAN :
          /\ last' = [n |-> input.n, kind |-> IF ok THEN "result" ELSE "call_error"]
          /\ pc' = AfterCallTool(ok)
          /\ status' = IF AfterCallTool(ok) = "done" THEN "err" ELSE status
          /\ rxOpen' = IF AfterCallTool(ok) = "done" THEN FALSE ELSE rxOpen
    /\ pending' = pending \ {Request("call_tool", input.n)}
    /\ reported' = Append(reported, input.n)
    /\ UNCHANGED <<family, parked, toolsResult, producerEnd,
                   stdin, rd, closed, server_cmd, child, transport,
                   issued, initResult, listResult, tools, pcP, buffer, queue,
                   input, parts, accepted, received, endedBy>>

\* client.shutdown() is called (lines 183-184)
ShutdownCall ==
    /\ pc = "shutdown"
    /\ pending' = pending \cup {Request("shutdown", 0)}
    /\ issued' = Append(issued, Request("shutdown", 0))
    /\ pc' = "shutdown.await"
    /\ UNCHANGED <<family, parked, toolsResult, producerEnd,
                   stdin, rd, closed, status, server_cmd, child,
                   transport, initResult, listResult, tools, pcP, buffer, queue,
                   rxOpen, input, parts, accepted, received, reported, last,
                   endedBy>>

\* client.shutdown() resolves and main returns (lines 184-187): an error is
\* returned by the ? operator, success returns Ok(()); input_rx is dropped
ShutdownReturn ==
    /\ pc = "shutdown.await"
    /\ Request("shutdown", 0) \in pending
    /\ \E ok \in BOOLEAN : status' = IF ok THEN "ok" ELSE "err"
    /\ pending' = pending \ {Request("shutdown", 0)}
    /\ pc' = "done"
    /\ rxOpen' = FALSE
    /\ UNCHANGED <<family, parked, toolsResult, producerEnd,
                   stdin, rd, closed, server_cmd, child, transport,
                   issued, initResult, listResult, tools, pcP, buffer, queue,
                   input, parts, accepted, received, reported, last, endedBy>>

----------------------------------------------------------------------------
(* The program *)

\* the steps of main
MainStep ==
    \/ PromptRead \/ Spawn \/ Connect
    \/ InitializeCall \/ InitializeReturn
    \/ ListToolsCall \/ ListToolsReturn
    \/ RecvSome \/ RecvNone \/ CallToolReturn
    \/ ShutdownCall \/ ShutdownReturn

\* the steps of the producer task
ProducerStep == ProducerRead \/ ProducerSend \/ ProducerWake

Next == UserType \/ UserClose \/ MainStep \/ ProducerStep

Spec == Init /\ [][Next]_vars

----------------------------------------------------------------------------
(* Vocabulary of the properties *)

Range(f) == {f[i] : i \in DOMAIN f}

IsPrefix(a, b) == Len(a) <= Len(b) /\ a = SubSeq(b, 1, Len(a))

\* how many requests of operation op have been issued
Count(op) == Cardinality({i \in DOMAIN issued : issued[i].op = op})

\* ordinals of the lines for which call_tool has been issued, in order
Dispatched ==
    LET calls == SelectSeq(issued, LAMBDA r : r.op = "call_tool")
    IN  [i \in 1..Len(calls) |-> calls[i].n]

\* the text the producer sends for the line with ordinal i
Sent(i) == Trim(ReadLine(stdin[i]))

\* the line with ordinal i is the exit command
IsExitLine(i) == Sent(i) = ExitToken

\* the line with ordinal i is a well-formed command: not exit, a tool name,
\* a space, and parameters that are JSON
IsCommand(i) ==
    /\ ~IsExitLine(i)
    /\ Len(SplitN2(Sent(i))) = 2
    /\ IsJson(SplitN2(Sent(i))[2])

\* the lifecycle state of the session, read off main's position: Ready
\* from the successful return of initialize() to the call of shutdown()
SessionState ==
    IF Count("shutdown") > 0
    THEN IF Request("shutdown", 0) \in pending THEN "ShuttingDown" ELSE "Closed"
    ELSE IF pc \in {"list_tools", "list_tools.await", "recv", "call_tool.await",
                    "shutdown"}
    THEN "Ready"
    ELSE IF pc = "done" THEN "Aborted" ELSE "Uninitialized"

LoopOver == pc \in {"shutdown", "shutdown.await", "done"}

----------------------------------------------------------------------------
(* Properties *)

C2_OneCallInFlight ==
    LET calls == {r \in pending : r.op = "call_tool"}
    IN  /\ Cardinality(calls) <= 1
        /\ Len(Dispatched) = Len(reported) + Cardinality(calls)
        /\ \A r \in calls :
              /\ pc = "call_tool.await"
              /\ received /= <<>>
              /\ received[Len(received)] = r.n
              /\ r.n \notin Range(reported)

\* a call is outstanding while the queue is full and the producer waits
C2_Witness ==
    /\ \E r \in pending : r.op = "call_tool"
    /\ Len(queue) = Capacity
    /\ parked

\* C3: the session is Ready only after initialize() returned success, and
\* no other Session API request is issued before that; after a failed
\* initialize() the session is not Ready, no list_tools, call_tool or
\* shutdown has been issued and the run has ended with failure status
C3_ReadyOnlyAfterInitialize ==
    /\ Count("initialize") <= 1
    /\ SessionState \in {"Ready", "ShuttingDown", "Closed"} => initResult = "ok"
    /\ Count("list_tools") + Count("call_tool") + Count("shutdown") > 0
          => initResult = "ok"
    /\ initResult = "err" =>
          /\ SessionState = "Aborted"
          /\ pc = "done" /\ status = "err"
          /\ pcP = "unspawned"

\* initialize() failed while command lines were waiting on the input source
C3_Witness ==
    /\ initResult = "err"
    /\ status = "err"
    /\ Len(stdin) > rd

\* C4: the producer is not spawned, no line is read, queued or received by
\* the dispatch loop and no call_tool is issued before initialize() and
\* list_tools() have both returned success
C4_NothingBeforeCatalog ==
    (\/ pcP /= "unspawned"
     \/ accepted /= <<>>
     \/ queue /= <<>>
     \/ received /= <<>>
     \/ Count("call_tool") > 0)
    => /\ initResult = "ok"
       /\ listResult = "ok"
       /\ Request("list_tools", 0) \notin pending

\* a call has been issued for a line read after the catalog fetch
C4_Witness ==
    /\ Count("call_tool") > 0
    /\ listResult = "ok"

\* C5: the step that reports a call_tool error leaves main in the loop at
\* recv, the session Ready, the run running and the receiver alive, with no
\* shutdown issued; after it the consumer can take the next queued line
C5_CallErrorNotFatal ==
    /\ [][(reported' /= reported /\ last'.kind = "call_error")
            => /\ pc' = "recv"
               /\ SessionState' = "Ready"
               /\ status' = "running"
               /\ rxOpen'
               /\ Count("shutdown")' = 0]_vars
    /\ [](last.kind = "call_error" /\ pc = "recv" /\ queue /= <<>>
            => ENABLED RecvSome)

\* after a reported call error the next line has been dispatched
C5_Witness ==
    /\ last.kind = "call_error"
    /\ pc = "call_tool.await"
    /\ last.n < input.n

\* an exit line has been read by the producer
ExitEntered == \E i \in 1..Len(accepted) : IsExitLine(accepted[i])

\* an exit line has been received by the consumer
ExitReceived == \E i \in 1..Len(received) : IsExitLine(received[i])

C7_EndOfInputShutsDownOnce ==
    /\ [][(pcP = "read" /\ rd = Len(stdin) /\ closed /\ pcP' /= pcP)
            => pcP' = "ended"]_vars
    /\ [](endedBy = "closed" =>
            /\ pcP = "ended"
            /\ queue = <<>>
            /\ received = accepted
            /\ ~ExitReceived
            /\ LoopOver)
    /\ []((pcP = "ended" /\ pc /= "done") => ENABLED MainStep)
    /\ []((pcP = "ended" /\ pc = "done" /\ listResult = "ok") =>
            /\ endedBy \in {"exit", "closed"}
            /\ Count("shutdown") = 1)

\* the input ended without exit after a command; the queue was drained and
\* the run is over with one shutdown()
C7_Witness ==
    /\ pc = "done"
    /\ closed /\ rd = Len(stdin)
    /\ endedBy = "closed"
    /\ Count("shutdown") = 1
    /\ Len(reported) >= 1

\* the message the producer is sending
Message == [n |-> buffer.n, s |-> Trim(buffer.s)]

\* C8 as claimed: the queue never holds more than 10 lines, and a send that
\* waited on the full queue ends only by enqueueing its line
C8_Original ==
    /\ [](Len(queue) <= 10)
    /\ [][(parked /\ ~parked') => queue' = Append(queue, Message)]_vars

\* C8: the queue never holds more than 10 lines; a send that finds 10 lines
\* pending waits, and no producer step is possible while they stay pending
\* and the receiver lives; once the consumer has removed one the send can
\* complete; the waiting send ends by enqueueing its line behind the others
\* or, when main has returned and dropped the receiver meanwhile, by the
\* send error that ends the producer
C8_QueueBoundedSendWaits ==
    /\ [](Len(queue) <= 10)
    /\ [](parked => pcP = "send")
    /\ []((pcP = "send" /\ rxOpen /\ Len(queue) = 10)
            => ~ENABLED (ProducerSend /\ ~parked'))
    /\ []((parked /\ rxOpen /\ Len(queue) = 10) => ~ENABLED ProducerStep)
    /\ []((parked /\ rxOpen /\ Len(queue) < 10) => ENABLED ProducerSend)
    /\ [][(parked /\ ~parked') =>
            \/ rxOpen /\ queue' = Append(queue, Message) /\ pcP' = "sleep"
            \/ ~rxOpen /\ queue' = queue /\ pcP' = "ended"]_vars

\* the send that waited has enqueued its line as the tenth after the
\* consumer took one
C8_Witness ==
    /\ Len(queue) = 10
    /\ pcP = "sleep"
    /\ queue[10].n = buffer.n
    /\ received /= <<>>
    /\ buffer.n - received[Len(received)] = 10

\* the consumer reported a parse failure for the line it received last
ParseFailed == last.n = input.n /\ last.kind \in {"format_error", "params_error"}

\* C9: call_tool is issued only for lines that have a parameters part that
\* is JSON; the step that receives a line without one issues no request,
\* reports the error for that line and leaves main at recv with the session
\* Ready and the run running; after it the consumer can take the next line
C9_ParseFailureNoCall ==
    /\ [](\A i \in 1..Len(issued) :
            issued[i].op = "call_tool" => IsCommand(issued[i].n))
    /\ [][(received' /= received
           /\ ~IsExitLine(input'.n) /\ ~IsCommand(input'.n))
            => /\ issued' = issued /\ pending' = pending
               /\ last'.n = input'.n
               /\ last'.kind =
                    IF Len(SplitN2(Sent(input'.n))) < 2
                    THEN "format_error" ELSE "params_error"
               /\ pc' = "recv"
               /\ SessionState' = "Ready"
               /\ status' = "running"]_vars
    /\ []((ParseFailed /\ pc = "recv" /\ queue /= <<>>) => ENABLED RecvSome)

\* after a params error and a format error a later line has been dispatched
C9_Witness ==
    /\ last.kind = "format_error"
    /\ pc = "call_tool.await"
    /\ last.n < input.n
    /\ \E i \in 1..Len(received) :
          /\ ~IsExitLine(received[i])
          /\ Len(SplitN2(Sent(received[i]))) = 2
          /\ ~IsJson(SplitN2(Sent(received[i]))[2])

\* the consumer holds a received line that is not the exit command
Parsed == input /= NoLine /\ input.s /= ExitToken

HasChar(s, cs) == \E i \in 1..Len(s) : s[i] \in cs

\* the consumer reported the missing-parameters error for the held line
MissingParams == last.n = input.n /\ last.kind = "format_error"

\* C10 as claimed: the line is split at its first run of whitespace
\* characters: toolName is the non-empty, whitespace-free text before the
\* run, paramsText lies behind it, and the missing-parameters error is
\* reported exactly when the line holds no whitespace
C10_Original ==
    Parsed =>
       IF HasChar(input.s, WS)
       THEN /\ Len(parts) = 2
            /\ parts[1] /= <<>> /\ ~HasChar(parts[1], WS)
            /\ \E run \in Strings(MaxLen) :
                  /\ run /= <<>> /\ \A i \in 1..Len(run) : run[i] \in WS
                  /\ input.s = parts[1] \o run \o parts[2]
            /\ ~MissingParams
       ELSE MissingParams

\* C10: the line is split at its first space character: toolName is the
\* non-empty text before it and holds no space, paramsText is everything
\* behind it, and the missing-parameters error is reported exactly when the
\* line holds no space; the line t "1 1" yields toolName t, params "1 1"
C10_SplitsAtFirstSpace ==
    /\ Parsed =>
          IF HasChar(input.s, {" "})
          THEN /\ Len(parts) = 2
               /\ parts[1] /= <<>> /\ ~HasChar(parts[1], {" "})
               /\ input.s = parts[1] \o <<" ">> \o parts[2]
               /\ ~MissingParams
          ELSE /\ parts = <<input.s>>
               /\ MissingParams
    /\ (Parsed /\ input.s = <<"t", " ", "\"", "1", " ", "1", "\"">>) =>
          /\ parts = << <<"t">>, <<"\"", "1", " ", "1", "\"">> >>
          /\ Request("call_tool", input.n) \in Range(issued)

\* a line with a tab between two tokens and no space: no second part
C10_Witness ==
    /\ Parsed
    /\ MissingParams
    /\ \E i \in 2..(Len(input.s) - 1) : input.s[i] = "\t"

\* C11: a run that has issued shutdown() and returned ends as it does
\* after a successful shutdown, with Ok(()), whether shutdown() resolved
\* with success or with an error
C11_ShutdownFailureNotFatal ==
    (pc = "done" /\ Count("shutdown") > 0) => status = "ok"

\* C12: a list_tools() result without a tools array, or with an empty one,
\* yields the empty catalog and is not fatal: whatever the shape of a
\* successful result, main is never at its end without shutdown() issued,
\* and the step that receives the result leaves the run running and the
\* session Ready, opens the channel, starts the producer and puts main at
\* recv, with no request issued
C12_EmptyCatalogNotFatal ==
    /\ [](toolsResult \in {"absent", "empty"} => tools = {})
    /\ [](toolsResult = "one" => tools /= {})
    /\ [](toolsResult /= "none" => (pc = "done" => Count("shutdown") = 1))
    /\ [][(toolsResult = "none" /\ toolsResult' /= "none")
            => /\ pc' = "recv" /\ pcP' = "read" /\ rxOpen'
               /\ status' = "running"
               /\ SessionState' = "Ready"
               /\ queue' = <<>>
               /\ issued' = issued /\ pending' = {}]_vars

\* after a result without a tools array the consumer has received a line
\* and dispatched it
C12_Witness ==
    /\ toolsResult = "absent"
    /\ tools = {}
    /\ Len(received) >= 1
    /\ Count("call_tool") >= 1

\* C13: once initialize() has succeeded, a run that has returned was ended
\* by exit or by the end of the input and has issued shutdown(): no failure
\* of list_tools() or of a call_tool() ends it or skips shutdown()
C13_OnlyStartupFailuresFatal ==
    (pc = "done" /\ initResult = "ok") =>
       /\ endedBy \in {"exit", "closed"}
       /\ Count("shutdown") = 1

\* the position of a lifecycle state in the order the session passes them
StateRank(s) ==
    CASE s = "Uninitialized" -> 0
      [] s = "Ready"         -> 1
      [] s = "ShuttingDown"  -> 2
      [] s = "Closed"        -> 3
      [] s = "Aborted"       -> 3

\* C14: shutdown() is the last request the run issues: once it has been
\* issued no step issues initialize, list_tools, call_tool or a second
\* shutdown, whatever is still queued or being enqueued; the session never
\* steps back in its lifecycle and never leaves Closed
C14_ClosedIsTerminal ==
    /\ [](\A i \in 1..Len(issued) :
            issued[i].op = "shutdown" => i = Len(issued))
    /\ [][Count("shutdown") > 0 => issued' = issued]_vars
    /\ [][StateRank(SessionState) <= StateRank(SessionState')]_vars
    /\ [][SessionState = "Closed" => SessionState' = "Closed"]_vars

\* shutdown() is in flight while lines wait in the queue and the producer
\* is about to enqueue another
C14_Witness ==
    /\ pc = "shutdown.await"
    /\ Len(queue) >= 2
    /\ pcP = "send"
    /\ rxOpen

\* the path prompt has ended and left the empty path: an empty line was
\* read, or the read failed
EmptyPath == pc /= "prompt" /\ server_cmd = <<>>

\* main has returned without a child: the prompt met end-of-input, or the
\* spawn failed
NeverLaunched == pc = "done" /\ child = "none"

\* C15: with the empty path the spawn never succeeds: after the spawn step
\* main has returned; a run that ends without a child, however the prompt
\* ended, ends with an error, has built no transport, has issued no
\* request and has started no producer; the transport is built and
\* requests are issued only with a running child
C15_NoSessionWithoutChild ==
    /\ EmptyPath => /\ child = "none"
                    /\ pc \in {"spawn", "done"}
    /\ NeverLaunched => /\ status = "err"
                        /\ ~transport
                        /\ issued = <<>> /\ pending = {}
                        /\ pcP = "unspawned" /\ ~rxOpen
    /\ (transport \/ issued /= <<>>) => child /= "none"
    /\ (pc = "spawn" /\ EmptyPath) => ENABLED Spawn

\* the run ended fatally after a blank path line
C15_Witness ==
    /\ NeverLaunched
    /\ rd >= 1
    /\ server_cmd = <<>>
    /\ stdin[1] = <<" ">>

\* the run ended fatally after the read of the path failed
C15_WitnessReadError ==
    /\ NeverLaunched
    /\ rd = 0
    /\ stdin /= <<>>

\* the run ended fatally after a path that could not be launched
C15_WitnessSpawnFailed ==
    /\ NeverLaunched
    /\ server_cmd /= <<>>

\* C16: after a failed read the producer task has ended; the consumer at
\* recv with no line queued finds the channel closed; a loop ended by the
\* closed channel has received every line the producer read and left none
\* queued;
\* the run that returns has issued exactly one shutdown()
C16_ReadErrorShutsDown ==
    producerEnd = "read_error" =>
       /\ pcP = "ended"
       /\ (pc = "recv" /\ queue = <<>>) => ENABLED RecvNone
       /\ (LoopOver /\ endedBy = "closed") =>
             /\ received = accepted
             /\ queue = <<>>
       /\ pc = "done" => /\ endedBy \in {"exit", "closed"}
                         /\ Count("shutdown") = 1

\* the read failed while the input was still open; the consumer processed
\* the lines read before and the run ended through shutdown()
C16_Witness ==
    /\ producerEnd = "read_error"
    /\ ~closed
    /\ pc = "done"
    /\ endedBy = "closed"
    /\ Len(received) >= 2
    /\ Count("shutdown") = 1
    /\ status = "ok"

\* C17: the consumer receives the lines the input source supplies after
\* the path line, the second line of the input first, each once, in input
\* order and with none skipped; a loop ended by the end of the input has
\* received every line behind the path line
C17_NoCommandLost ==
    /\ \A i \in 1..Len(received) : received[i] = i + 1
    /\ (endedBy = "closed" /\ producerEnd = "eof") =>
          Len(received) = Len(stdin) - 1

\* the line the consumer holds ended the loop as the exit command
TakenAsExit == input /= NoLine /\ endedBy = "exit"

\* C18: the line the consumer holds ended the loop as exit exactly when
\* its text without the surrounding whitespace is the token exit, in that
\* case; such a line is neither dispatched nor reported as a parse error,
\* it is the last line received, and no line behind it is dispatched or
\* reported; any other line is split by the parser and is dispatched or
\* reported: EXIT lacks parameters, exit now has parameters that are no
\* JSON, exit 1 is a call of the tool exit
C18_ExitIsTrimmedToken ==
    /\ input /= NoLine =>
          (TakenAsExit <=> Trim(stdin[input.n]) = <<"e", "x", "i", "t">>)
    /\ TakenAsExit =>
          /\ received[Len(received)] = input.n
          /\ \A i \in 1..Len(issued) : issued[i].n < input.n
          /\ last.n < input.n
          /\ \A i \in 1..Len(reported) : reported[i] < input.n
    /\ (input /= NoLine /\ ~TakenAsExit) =>
          /\ parts = SplitN2(input.s)
          /\ \/ last.n = input.n
             \/ Request("call_tool", input.n) \in Range(issued)
    /\ (input /= NoLine /\ input.s = <<"E", "X", "I", "T">>) =>
          /\ ~TakenAsExit
          /\ last = [n |-> input.n, kind |-> "format_error"]
    /\ (input /= NoLine /\ input.s = <<"e", "x", "i", "t", " ", "n", "o", "w">>) =>
          /\ ~TakenAsExit
          /\ last = [n |-> input.n, kind |-> "params_error"]
    /\ (input /= NoLine /\ input.s = <<"e", "x", "i", "t", " ", "1">>) =>
          /\ ~TakenAsExit
          /\ Request("call_tool", input.n) \in Range(issued)

\* exit now was reported as a parse error and the command behind it was
\* dispatched
C18_Witness ==
    /\ Len(received) = 2
    /\ Sent(received[1]) = <<"e", "x", "i", "t", " ", "n", "o", "w">>
    /\ last = [n |-> received[1], kind |-> "params_error"]
    /\ Request("call_tool", received[2]) \in Range(issued)

\* exit in surrounding whitespace ended the loop with a command queued
\* behind it
C18_WitnessExit ==
    /\ TakenAsExit
    /\ stdin[input.n] = <<" ", "e", "x", "i", "t", "\t">>
    /\ pc = "done"
    /\ Len(accepted) > Len(received)
    /\ issued = <<Request("initialize", 0), Request("list_tools", 0),
                  Request("shutdown", 0)>>

\* the scheduling under which progress is claimed: main and the producer
\* task run when they can (the tokio runtime polls every runnable task, and
\* a request that is awaited resolves), and the input source ends
FairSpec ==
    /\ Spec
    /\ WF_vars(MainStep)
    /\ WF_vars(ProducerStep)
    /\ WF_vars(UserClose)

\* C19: under fair scheduling, with every request resolving and the input
\* ending, a session that is Ready eventually is Closed
C19_ReadyLeadsToClosed ==
    (SessionState = "Ready") ~> (SessionState = "Closed")

\* under the same scheduling, a run whose list_tools() succeeded, so that
\* the loop started, eventually is Closed: neither the producer waiting on
\* the full queue nor the consumer waiting on the empty one blocks for good
C19_LoopLeadsToClosed ==
    (listResult = "ok") ~> (SessionState = "Closed")

\* C20: a run that has returned has left no child running: the child it
\* spawned was terminated on the way out
C20_ChildTerminated ==
    pc = "done" => child /= "running"

=============================================================================
